---- MODULE Spec2Model ----
(***************************************************************************)
(* Model of attractors.py: the attractor base class (constructor, update,  *)
(* show), the projection screenXY, and the module-level driver that runs   *)
(* the seven attractor families one after the other.                       *)
(*                                                                         *)
(* Floating-point coordinates are abstracted to what the render loop can   *)
(* observe of a point:                                                     *)
(*   "onscreen"    finite; screenXY returns integers pygame can draw       *)
(*   "outOfBounds" finite; screenXY returns integers, draw.line raises     *)
(*   "nonFinite"   inf or NaN; int() inside screenXY raises                *)
(* Angles are counted in hundredths of a radian, hues in millionths.       *)
(***************************************************************************)
EXTENDS Integers, Sequences, FiniteSets, TLC

\* ---------------------------------------------------------------- bounds
MaxTraj == 3          \* initial conditions given to one attractor (Spec)
MaxFrames == 4        \* frames of one render loop (Spec)
MaxHueFrames == 260   \* frames of the render loop (SpecHue)
DriverFrames == 3     \* frames of each family's render loop (SpecDriver)
DriverDiverge == 2    \* initial points per family that may diverge (SpecDriver)

\* ------------------------------------------------------ program constants
HueInit == 750000     \* hue = 0.75
HueMin == 750000      \* hue < 0.75
HueMax == 850000      \* hue > 0.85

VARIABLES
  pc,          \* position of the program / of show()
  scenario,    \* index of the family the driver is running (0: none)
  points,      \* self.points: list of trajectories [id, hist]
  keepGoing,   \* show(): keepGoing
  angle,       \* show(): angle, in hundredths of a radian
  hue,         \* show(): hue, in millionths
  display,     \* the pygame display: "none", "open", "closed"
  drawn,       \* segments handed to a successful draw.line in this frame
  visited,     \* ids of the trajectories the outer draw loop has yielded
  evictLog,    \* the self.points.pop(listInd) attempts of this frame
  colourHue,   \* hue last passed to hsvToRgbScaled in this frame (-1: none)
  updates,     \* calls of self.update() in this frame
  frameStart,  \* self.points as it was when this frame began
  releases,    \* calls of pygame.quit() by the current show()
  quitAngle,   \* angle of the frame that polled QUIT (-1: none)
  started,     \* families whose show() has been entered, in order
  finished,    \* families whose show() has returned, in order
  frameCap,    \* bound on the frames of one render loop
  mayDiverge   \* indices of the initial conditions that lead off the screen

vars == <<pc, scenario, points, keepGoing, angle, hue, display, drawn,
          visited, evictLog, colourHue, updates, frameStart, releases,
          quitAngle, started, finished, frameCap, mayDiverge>>

NoId == <<0, 0>>

\* ------------------------------------------------------------- the driver
Families == <<"lorenz", "rossler", "thomas", "finance", "noseHoover",
              "wangSun", "halvorsen">>

FamilyName(k) == IF k = 0 THEN "attractor" ELSE Families[k]

NumInitsAllTen(f) == 10

\* randPoints(num) as the driver calls it for each family
NumInits(f) == IF f \in {"noseHoover", "halvorsen"} THEN 50 ELSE 10

\* randPoints: num points, every coordinate uniform in [1, 5)
randPoints(num) == [i \in 1..num |-> "onscreen"]

\* attractor.__init__: one fresh single-point list per initial condition
Construct(initConds, tag) ==
  [i \in 1..Len(initConds) |-> [id |-> <<tag, i>>, hist |-> <<initConds[i]>>]]

\* ------------------------------------------------------------- projection
\* screenXY: int() of a non-finite coordinate raises, otherwise it returns
\* a pair of integers, however large.
screenXY(point) ==
  CASE point = "nonFinite" -> "raise"
    [] point = "outOfBounds" -> "bigint"
    [] OTHER -> "pixel"

\* pygame.draw.line succeeds when both end points are drawable integers
DrawLineOk(projPt, prevPt) == projPt = "pixel" /\ prevPt = "pixel"

\* Position (1-based) of Python index j in a list of length n
PyIndex(j, n) == IF j < 0 THEN n + j + 1 ELSE j + 1

RemoveAt(s, p) == SubSeq(s, 1, p - 1) \o SubSeq(s, p + 1, Len(s))

\* try: self.points.pop(listInd) except: pass
popSwallowed(pts, listInd) ==
  IF listInd < Len(pts) THEN RemoveAt(pts, listInd + 1) ELSE pts

RECURSIVE popRepeated(_, _, _)
\* k executions of the eviction handler at the same listInd
popRepeated(pts, listInd, k) ==
  IF k = 0 THEN pts ELSE popRepeated(popSwallowed(pts, listInd), listInd, k - 1)

\* ------------------------------------------------------------------- hue
\* math.cos(angle), scaled by 10^5, for angle = a / 100
cos(a) ==
  LET m == (a * 10) % 6283
      h == IF m > 3142 THEN 6283 - m ELSE m
      neg == h > 1571
      x == IF neg THEN 3142 - h ELSE h
      x2 == x * x
      x2k == x2 \div 1000
      t1 == x2 \div 20
      t2 == (t1 * x2k) \div 12000
      t3 == (t2 * x2k) \div 30000
      t4 == (t3 * x2k) \div 56000
      c == 100000 - t1 + t2 - t3 + t4
  IN IF neg THEN 0 - c ELSE c

hueStepNoLowerReset(h, a) ==
  LET h2 == h + (cos(a) * 10) \div 200
  IN IF h2 > HueMax THEN HueInit ELSE h2

\* hue += math.cos(angle) / 200; if hue > 0.85 or hue < 0.75: hue = 0.75
hueStep(h, a) ==
  LET h2 == h + (cos(a) * 10) \div 200
  IN IF h2 > HueMax \/ h2 < HueMin THEN HueInit ELSE h2

\* --------------------------------------------------------------- update
Last(s) == s[Len(s)]

\* One Euler step x += dx, y += dy, z += dz seen through the abstraction:
\* a point stays in its class or moves one class further from the screen.
eulerStep(last, diverges) ==
  CASE last = "onscreen" -> IF diverges THEN "outOfBounds" ELSE "onscreen"
    [] last = "outOfBounds" -> IF diverges THEN "nonFinite" ELSE "outOfBounds"
    [] OTHER -> "nonFinite"

updateOverwritesLast(pts, D) ==
  [i \in 1..Len(pts) |->
     [pts[i] EXCEPT !.hist =
        [@ EXCEPT ![Len(@)] = eulerStep(Last(pts[i].hist), i \in D)]]]

updateAppendsTrajectory(pts, D) ==
  pts \o [i \in 1..Len(pts) |->
            [pts[i] EXCEPT !.hist =
               Append(@, eulerStep(Last(pts[i].hist), i \in D))]]

\* attractor.update: self.points[index].append((x, y, z)) for every index
update(pts, D) ==
  [i \in 1..Len(pts) |->
     [pts[i] EXCEPT !.hist =
        Append(@, eulerStep(Last(pts[i].hist), i \in D))]]

\* ------------------------------------------------------------ draw pass
\* for index, point in enumerate(ptList[1:]): ... of one trajectory, as the
\* summary of its iterations. Iteration index projects point ptList[index+1]
\* and prevPt ptList[index-1]; the first call of screenXY that raises ends
\* the loop (and show()); every iteration before it either draws its line or,
\* draw.line having raised, runs self.points.pop(listInd).
\* st = [pts, drawn, visited, log, colour, raised, hue]
drawSegments(st, ptList, listInd) ==
  LET n == Len(ptList.hist)
      point(index) == ptList.hist[index + 2]
      prevPos(index) == PyIndex(index - 1, n)
      prev(index) == ptList.hist[prevPos(index)]
      raising == {index \in 0..(n - 2) :
                    \/ screenXY(point(index)) = "raise"
                    \/ screenXY(prev(index)) = "raise"}
      stop == IF raising = {} THEN n - 1
              ELSE CHOOSE i \in raising : \A j \in raising : i <= j
      failing == {index \in 0..(stop - 1) :
                    ~DrawLineOk(screenXY(point(index)), screenXY(prev(index)))}
      pops == Cardinality(failing)
  IN [st EXCEPT
        !.raised = raising # {},
        !.colour = IF stop > 0 THEN st.hue ELSE @,
        !.drawn = @ \cup {[id |-> ptList.id, index |-> index, a |-> index + 1,
                           b |-> prevPos(index) - 1] :
                          index \in (0..(stop - 1)) \ failing},
        !.pts = popRepeated(@, listInd, pops),
        !.log = @ \o [j \in 1..pops |->
                        [by |-> ptList.id,
                         removed |-> IF listInd + j <= Len(st.pts)
                                     THEN st.pts[listInd + j].id
                                     ELSE NoId]]]

RECURSIVE drawTrajectories(_, _)
\* for listInd, ptList in enumerate(self.points): the list iterator reads
\* position listInd of the list as it is when the iteration is reached.
drawTrajectories(st, listInd) ==
  IF st.raised \/ listInd >= Len(st.pts) THEN st
  ELSE LET ptList == st.pts[listInd + 1]
           seen == [st EXCEPT !.visited = @ \cup {ptList.id}]
       IN drawTrajectories(drawSegments(seen, ptList, listInd), listInd + 1)

drawPass(pts, h) ==
  drawTrajectories([pts |-> pts, drawn |-> {}, visited |-> {}, log |-> <<>>,
                    colour |-> -1, raised |-> FALSE, hue |-> h], 0)

\* ------------------------------------------------------ actions of show()
\* screen = set_mode(...); clock; keepGoing = 1; angle = 0; hue = 0.75
ShowEnter ==
  /\ pc = "constructed"
  /\ display' = "open"
  /\ keepGoing' = 1
  /\ angle' = 0
  /\ hue' = HueInit
  /\ releases' = 0
  /\ quitAngle' = -1
  /\ started' = Append(started, FamilyName(scenario))
  /\ drawn' = {} /\ visited' = {} /\ evictLog' = <<>> /\ colourHue' = -1
  /\ updates' = 0 /\ frameStart' = points
  /\ pc' = "loop"
  /\ UNCHANGED <<scenario, points, finished, frameCap, mayDiverge>>

\* while keepGoing: screen.fill; clock.tick; hue update
FrameBegin ==
  /\ pc = "loop"
  /\ keepGoing = 1
  /\ angle < frameCap
  /\ hue' = hueStep(hue, angle)
  /\ drawn' = {} /\ visited' = {} /\ evictLog' = <<>> /\ colourHue' = -1
  /\ updates' = 0 /\ frameStart' = points
  /\ pc' = "events"
  /\ UNCHANGED <<scenario, points, keepGoing, angle, display, releases,
                 quitAngle, started, finished, frameCap, mayDiverge>>

\* for event in pygame.event.get(): if event.type == QUIT: keepGoing = 0
PollEvents ==
  /\ pc = "events"
  /\ \E quit \in BOOLEAN :
       /\ keepGoing' = IF quit THEN 0 ELSE keepGoing
       /\ quitAngle' = IF quit THEN angle ELSE quitAngle
  /\ pc' = "draw"
  /\ UNCHANGED <<scenario, points, angle, hue, display, drawn, visited,
                 evictLog, colourHue, updates, frameStart, releases, started,
                 finished, frameCap, mayDiverge>>

\* for listInd, ptList in enumerate(self.points): ... ; an exception of
\* screenXY is outside the try and leaves show()
DrawPass ==
  /\ pc = "draw"
  /\ LET r == drawPass(points, hue) IN
       /\ points' = r.pts
       /\ drawn' = r.drawn
       /\ visited' = r.visited
       /\ evictLog' = r.log
       /\ colourHue' = r.colour
       /\ pc' = IF r.raised THEN "raised" ELSE "update"
  /\ UNCHANGED <<scenario, keepGoing, angle, hue, display, updates,
                 frameStart, releases, quitAngle, started, finished, frameCap,
                 mayDiverge>>

\* self.update(); angle += 0.01; pygame.display.update()
Update ==
  /\ pc = "update"
  /\ \E D \in SUBSET {i \in 1..Len(points) :
                         /\ points[i].id[2] \in mayDiverge
                         /\ Last(points[i].hist) # "nonFinite"} :
       points' = update(points, D)
  /\ updates' = updates + 1
  /\ angle' = angle + 1
  /\ pc' = "loop"
  /\ UNCHANGED <<scenario, keepGoing, hue, display, drawn, visited, evictLog,
                 colourHue, frameStart, releases, quitAngle, started,
                 finished, frameCap, mayDiverge>>

\* the while condition is false: pygame.quit(); show() returns
LoopExit ==
  /\ pc = "loop"
  /\ keepGoing = 0
  /\ display' = "closed"
  /\ releases' = releases + 1
  /\ finished' = Append(finished, FamilyName(scenario))
  /\ pc' = "returned"
  /\ UNCHANGED <<scenario, points, keepGoing, angle, hue, drawn, visited,
                 evictLog, colourHue, updates, frameStart, quitAngle, started,
                 frameCap, mayDiverge>>

ShowNext == ShowEnter \/ FrameBegin \/ PollEvents \/ DrawPass \/ Update \/ LoopExit

\* -------------------------------------------------- one attractor instance
\* attractor(differentials, initConds) with 1..MaxTraj drawable initial points
Init ==
  /\ pc = "constructed"
  /\ scenario = 0
  /\ \E n \in 1..MaxTraj : points = Construct(randPoints(n), 0)
  /\ keepGoing = 1 /\ angle = 0 /\ hue = HueInit
  /\ display = "none"
  /\ drawn = {} /\ visited = {} /\ evictLog = <<>> /\ colourHue = -1
  /\ updates = 0 /\ frameStart = points /\ releases = 0 /\ quitAngle = -1
  /\ started = <<>> /\ finished = <<>>
  /\ frameCap = MaxFrames
  /\ mayDiverge = 1..MaxTraj

Next == ShowNext

Spec == Init /\ [][Next]_vars

\* one attractor with one trajectory that stays on screen, many frames
InitHue ==
  /\ pc = "constructed"
  /\ scenario = 0
  /\ points = Construct(randPoints(1), 0)
  /\ keepGoing = 1 /\ angle = 0 /\ hue = HueInit
  /\ display = "none"
  /\ drawn = {} /\ visited = {} /\ evictLog = <<>> /\ colourHue = -1
  /\ updates = 0 /\ frameStart = points /\ releases = 0 /\ quitAngle = -1
  /\ started = <<>> /\ finished = <<>>
  /\ frameCap = MaxHueFrames
  /\ mayDiverge = {}

SpecHue == InitHue /\ [][Next]_vars

\* ------------------------------------------------- the module-level driver
\* inits = randPoints(N); inst = family(..., inits, const); next: inst.show()
StartFamily ==
  /\ pc \in {"module", "returned"}
  /\ scenario < Len(Families)
  /\ scenario' = scenario + 1
  /\ points' = Construct(randPoints(NumInits(Families[scenario + 1])),
                         scenario + 1)
  /\ pc' = "constructed"
  /\ UNCHANGED <<keepGoing, angle, hue, display, drawn, visited, evictLog,
                 colourHue, updates, frameStart, releases, quitAngle, started,
                 finished, frameCap, mayDiverge>>

InitDriver ==
  /\ pc = "module"
  /\ scenario = 0
  /\ points = <<>>
  /\ keepGoing = 1 /\ angle = 0 /\ hue = HueInit
  /\ display = "none"
  /\ drawn = {} /\ visited = {} /\ evictLog = <<>> /\ colourHue = -1
  /\ updates = 0 /\ frameStart = <<>> /\ releases = 0 /\ quitAngle = -1
  /\ started = <<>> /\ finished = <<>>
  /\ frameCap = DriverFrames
  /\ mayDiverge = 1..DriverDiverge

NextDriver == StartFamily \/ ShowNext

SpecDriver == InitDriver /\ [][NextDriver]_vars

\* ================================================================ claims
InShow == pc \in {"loop", "events", "draw", "update"}
LeftShow == pc \in {"returned", "raised"}

Ids(pts) == {pts[i].id : i \in 1..Len(pts)}

HistOf(pts, id) == LET i == CHOOSE j \in 1..Len(pts) : pts[j].id = id
                   IN pts[i].hist

SegmentsOf(id) == {s \in drawn : s.id = id}

\* C1: in every frame, every segment drawn for a trajectory with history
\* p[0..n] joins two consecutive points p[i-1] and p[i], 1 <= i <= n, and a
\* trajectory the draw pass went through gets exactly one segment for each i.
C1_SegmentsJoinConsecutivePoints ==
  /\ \A s \in drawn : s.a >= 1 /\ s.b = s.a - 1
  /\ pc = "update" =>
       \A t \in 1..Len(points) :
         points[t].id \in visited =>
           \A i \in 1..(Len(points[t].hist) - 1) :
             Cardinality({s \in SegmentsOf(points[t].id) :
                            s.a = i /\ s.b = i - 1}) = 1

\* C2: every pop of a draw pass that removes a trajectory removes the
\* trajectory whose own segment failed; a repeated eviction attempt for a
\* trajectory already removed removes nothing.
C2_EvictionRemovesOnlyTheOffender ==
  \A k \in 1..Len(evictLog) :
    /\ evictLog[k].removed \in {evictLog[k].by, NoId}
    /\ (\E j \in 1..(k - 1) : evictLog[j].by = evictLog[k].by)
         => evictLog[k].removed = NoId

\* C3: a failure to project or draw a point is caught inside the frame: the
\* render loop is never left through an exception.
C3_FailureNeverLeavesTheLoop == pc # "raised"

\* C4: update() appends exactly one point to every active trajectory and
\* changes no earlier point; it runs once per frame, so a trajectory active at
\* the end of a frame is one point longer than at its start; no other step
\* changes, shortens or lengthens the history of an active trajectory.
C4_UpdateAppendsOnePoint ==
  [][ /\ (pc = "update") =>
           /\ Len(points') = Len(points)
           /\ updates' = 1
           /\ \A i \in 1..Len(points) :
                /\ points'[i].id = points[i].id
                /\ Len(points'[i].hist) = Len(points[i].hist) + 1
                /\ SubSeq(points'[i].hist, 1, Len(points[i].hist))
                     = points[i].hist
                /\ Len(points'[i].hist)
                     = Len(HistOf(frameStart, points[i].id)) + 1
      /\ (pc # "update") =>
           \A i \in 1..Len(points') :
             /\ points'[i].id \in Ids(points)
             /\ points'[i].hist = HistOf(points, points'[i].id)
    ]_vars

C4_Witness ==
  /\ pc = "loop" /\ updates = 1
  /\ Len(points) > 0 /\ Len(points) < Len(frameStart)
  /\ Len(points[1].hist) >= 3

\* C5: the hue handed to the colour conversion, and the hue after each
\* frame's hue step, lies in [0.75, 0.85].
C5_HueInRange ==
  /\ HueMin <= hue /\ hue <= HueMax
  /\ colourHue # -1 => (HueMin <= colourHue /\ colourHue <= HueMax)

\* a frame whose hue step went below 0.75 and was reset, then drawn
C5_Witness ==
  /\ pc = "update" /\ colourHue = HueInit /\ cos(angle) < 0
  /\ \E a \in 0..angle : hueStep(HueInit, a) > HueInit

\* C6: the loop is left only after an exit request, and once QUIT is polled
\* the frame that polled it is the last one.
C6_LoopLeftOnlyOnExitRequest ==
  /\ LeftShow => keepGoing = 0
  /\ (quitAngle >= 0 /\ pc \in {"events", "draw", "update"})
       => angle = quitAngle
  /\ pc = "returned" => angle = quitAngle + 1

\* C7: a show() that opened the display has released it exactly once when
\* the render loop has been left, whichever way, and not before.
C7_DisplayReleasedOnEveryExit ==
  /\ LeftShow => (display = "closed" /\ releases = 1)
  /\ InShow => (display = "open" /\ releases = 0)

\* C8: no step of an attractor instance adds a trajectory to self.points or
\* brings back one that was evicted.
C8_ActiveSetNeverGrows ==
  [][ /\ Len(points') <= Len(points)
      /\ Ids(points') \subseteq Ids(points) ]_vars

C8_Witness ==
  /\ pc = "loop" /\ updates = 1
  /\ \E k \in 1..Len(evictLog) : evictLog[k].removed # NoId
  /\ Len(points) < Len(frameStart)

\* C9: the families' render loops are entered in the fixed order, each only
\* after the previous one has returned, at most one is running, and each
\* instance is built from its own 10 (50 for Nose-Hoover and Halvorsen)
\* fresh initial points.
C9_FamiliesRunInSequence ==
  /\ Len(started) <= Len(Families)
  /\ started = SubSeq(<<"lorenz", "rossler", "thomas", "finance",
                        "noseHoover", "wangSun", "halvorsen">>,
                      1, Len(started))
  /\ finished = SubSeq(started, 1, Len(finished))
  /\ Len(started) - Len(finished) \in {0, 1}
  /\ (InShow \/ pc = "raised") =>
       (Len(started) = scenario /\ Len(finished) = scenario - 1)
  /\ pc \in {"constructed", "returned"} => Len(finished) = Len(started)
  /\ pc = "constructed" =>
       /\ Len(started) = scenario - 1
       /\ Len(points) = IF scenario \in {5, 7} THEN 50 ELSE 10
       /\ \A i \in 1..Len(points) : Len(points[i].hist) = 1
       /\ Cardinality(Ids(points)) = Len(points)
  /\ \A i \in 1..Len(points) : points[i].id[1] = scenario

C9_Witness == pc = "returned" /\ Len(finished) = 7

\* C10: at the end of a draw pass every trajectory still in the active set
\* was gone through by the pass and had all its segments drawn.
C10_SurvivorsWereDrawn ==
  pc = "update" =>
    \A t \in 1..Len(points) :
      /\ points[t].id \in visited
      /\ Cardinality(SegmentsOf(points[t].id)) = Len(points[t].hist) - 1

====
